---- MODULE Spec2Model ----
(***************************************************************************)
(* Loan-approval simulation of src/app1.py: the customer store (sqlite     *)
(* table customers), the verification, underwriting and sanction-letter    *)
(* agents, and the /start_simulation and /add_customer request handlers.   *)
(*                                                                         *)
(* Python floats are IEEE-754 binary64 values.  TLC's integers are 32 bits *)
(* wide, so a significand is kept as a little-endian sequence of limbs and *)
(* the float operations the code performs (loan_amount * 1.12,             *)
(* total_amount / tenure_months, monthly_salary * 0.5, emi <= max_emi) are *)
(* computed with round-to-nearest-even exactly as the hardware does.       *)
(* Exponent range (overflow, subnormals) is not modelled: every value the  *)
(* bounded inputs produce is a normal binary64 number.                     *)
(***************************************************************************)
EXTENDS Integers, Sequences, FiniteSets, TLC

\* ------------------------------------------------------------------------
\* Naturals of arbitrary width: little-endian sequences of limbs in
\* 0..Base-1, <<>> is zero, the last limb of a non-empty sequence is not 0.
\* Small operands (k below) are machine-sized: k * Base fits TLC's integers.
\* ------------------------------------------------------------------------

Base == 2^8

LimbBits == CHOOSE n \in 1..16 : 2^n = Base

RECURSIVE Limbs(_)
Limbs(n) == IF n = 0 THEN <<>> ELSE <<n % Base>> \o Limbs(n \div Base)

RECURSIVE StripLeadingZeros(_)
StripLeadingZeros(b) ==
    IF b = <<>> THEN <<>>
    ELSE IF b[Len(b)] # 0 THEN b
    ELSE StripLeadingZeros(SubSeq(b, 1, Len(b) - 1))

RECURSIVE MulCarry(_, _, _)
MulCarry(b, k, carry) ==
    IF b = <<>> THEN Limbs(carry)
    ELSE LET v == Head(b) * k + carry
         IN  <<v % Base>> \o MulCarry(Tail(b), k, v \div Base)

\* b * k
NatMulSmall(b, k) == IF k = 0 THEN <<>> ELSE MulCarry(b, k, 0)

\* long division by k > 0, most significant limb first; i is the limb brought
\* down, rem the remainder so far
RECURSIVE DivFrom(_, _, _, _)
DivFrom(b, i, k, rem) ==
    IF i = 0 THEN [q |-> <<>>, r |-> rem]
    ELSE LET cur  == rem * Base + b[i]
             rest == DivFrom(b, i - 1, k, cur % k)
         IN  [q |-> Append(rest.q, cur \div k), r |-> rest.r]

\* [q |-> b \div k, r |-> b % k]
NatDivSmall(b, k) ==
    LET d == DivFrom(b, Len(b), k, 0)
    IN  [q |-> StripLeadingZeros(d.q), r |-> d.r]

\* b + 1
RECURSIVE NatInc(_)
NatInc(b) ==
    IF b = <<>> THEN <<1>>
    ELSE IF Head(b) < Base - 1 THEN <<Head(b) + 1>> \o Tail(b)
    ELSE <<0>> \o NatInc(Tail(b))

IsOdd(b) == b # <<>> /\ b[1] % 2 = 1

\* the number of bits of b
BitLen(b) ==
    IF b = <<>> THEN 0
    ELSE (Len(b) - 1) * LimbBits
         + (CHOOSE j \in 1..LimbBits : 2^(j-1) <= b[Len(b)] /\ b[Len(b)] < 2^j)

\* b * 2^s
ShiftLeft(b, s) ==
    IF b = <<>> THEN <<>>
    ELSE [i \in 1..(s \div LimbBits) |-> 0] \o NatMulSmall(b, 2^(s % LimbBits))

\* [q |-> b \div 2^s, inexact |-> b % 2^s # 0]
ShiftRight(b, s) ==
    LET w == s \div LimbBits
        d == NatDivSmall(SubSeq(b, w + 1, Len(b)), 2^(s % LimbBits))
    IN  [q |-> d.q,
         inexact |-> d.r # 0 \/ \E i \in 1..w : i <= Len(b) /\ b[i] # 0]

\* -1, 0, 1 as a < b, a = b, a > b
NatCmp(a, b) ==
    IF Len(a) < Len(b) THEN -1
    ELSE IF Len(a) > Len(b) THEN 1
    ELSE IF a = b THEN 0
    ELSE LET i == CHOOSE j \in 1..Len(a) :
                      a[j] # b[j] /\ \A h \in (j+1)..Len(a) : a[h] = b[h]
         IN  IF a[i] < b[i] THEN -1 ELSE 1

\* ------------------------------------------------------------------------
\* binary64: [sign, m, e] is sign * m * 2^e with m of exactly MantBits bits
\* (zero is sign = 0, m = <<>>, e = 0), so equal values are equal records.
\* ------------------------------------------------------------------------

MantBits == 53

FloatZero == [sign |-> 0, m |-> <<>>, e |-> 0]

\* the binary64 nearest to sign * (b + f) * 2^e, ties to even, where b is a
\* natural and 0 <= f < 1 is zero iff ~sticky (sticky only with a b wider
\* than MantBits)
RoundToFloat(sign, b, e, sticky) ==
    IF b = <<>> THEN FloatZero
    ELSE IF BitLen(b) <= MantBits
    THEN [sign |-> sign, m |-> ShiftLeft(b, MantBits - BitLen(b)),
          e |-> e - (MantBits - BitLen(b))]
    ELSE LET drop  == BitLen(b) - MantBits
             sh    == ShiftRight(b, drop - 1)
             guard == IsOdd(sh.q)
             kept  == NatDivSmall(sh.q, 2).q
             rest  == sticky \/ sh.inexact
             up    == guard /\ (rest \/ IsOdd(kept))
             r     == IF up THEN NatInc(kept) ELSE kept
         IN  IF BitLen(r) > MantBits
             THEN [sign |-> sign, m |-> NatDivSmall(r, 2).q, e |-> e + drop + 1]
             ELSE [sign |-> sign, m |-> r, e |-> e + drop]

Sgn(n) == IF n > 0 THEN 1 ELSE IF n < 0 THEN -1 ELSE 0
Abs(n) == IF n < 0 THEN -n ELSE n

\* float(n) of an integer n
IntToFloat(n) == RoundToFloat(Sgn(n), Limbs(Abs(n)), 0, FALSE)

\* x * n for an integer-valued float n
FloatMulInt(x, n) ==
    RoundToFloat(x.sign * Sgn(n), NatMulSmall(x.m, Abs(n)), x.e, FALSE)

\* x / n for an integer-valued float n # 0: the quotient is taken with
\* enough extra bits that guard and sticky bits exist
FloatDivInt(x, n) ==
    LET k  == BitLen(Limbs(Abs(n))) + 2
        qr == NatDivSmall(ShiftLeft(x.m, k), Abs(n))
    IN  RoundToFloat(x.sign * Sgn(n), qr.q, x.e - k, qr.r # 0)

\* x * 0.5: exact, the exponent drops by one
FloatHalf(x) == IF x.sign = 0 THEN FloatZero ELSE [x EXCEPT !.e = @ - 1]

\* the magnitudes of two non-zero floats compared
MagCmp(x, y) ==
    IF x.e >= y.e THEN NatCmp(ShiftLeft(x.m, x.e - y.e), y.m)
    ELSE NatCmp(x.m, ShiftLeft(y.m, y.e - x.e))

\* x <= y
FloatLe(x, y) ==
    IF x.sign # y.sign THEN x.sign < y.sign
    ELSE IF x.sign = 0 THEN TRUE
    ELSE IF x.sign = 1 THEN MagCmp(x, y) <= 0
    ELSE MagCmp(x, y) >= 0

\* the literal 1.12: the binary64 nearest to 112/100
Float_1_12 == FloatDivInt(IntToFloat(112), 100)

\* the literals 10.5 and 12.0, both exact in binary64
Float_10_5 == FloatHalf(IntToFloat(21))
Float_12_0 == IntToFloat(12)

\* ------------------------------------------------------------------------
\* Bounds of the model and the inputs the requests are drawn from
\* ------------------------------------------------------------------------

\* add_customer requests accepted in one behaviour
MaxAdds == 1

\* the wall clock runs over the seconds 0..MaxClock
MaxClock == 1

\* the request threads of /start_simulation (Flask serves requests in threads)
Sims == {"s1", "s2"}

\* profiles posted to /add_customer: a borrower exactly on the credit floor
\* whose EMI for 375 over 60 months is exactly half the salary, and a profile
\* outside the documented domain
NewProfiles ==
    { [name |-> "Floor", phone |-> "p4", address |-> "a4",
       credit_score |-> 700, pre_approved_limit |-> 200, monthly_salary |-> 14],
      [name |-> "Odd", phone |-> "p5", address |-> "a5",
       credit_score |-> 950, pre_approved_limit |-> 0, monthly_salary |-> -5] }

\* loan amounts of direct underwriting_agent calls
Amounts == {0, 200, 201, 375, 400, 401, 450000, 500000, 600000, 1100000}

\* tenures of direct underwriting_agent calls
Tenures == {0, 12, 60}

\* float('nan'), which float() at line 723 gives for the posted text "nan" or
\* the JSON literal NaN; amounts are integers in the model and this one stands
\* for the value no comparison holds of
NaN == -(2^30)

\* loan_amount values posted to /start_simulation; a request without the
\* field reads 0 (line 723)
SimAmounts == {NaN, -100, 0, 375, 450000}

\* ------------------------------------------------------------------------
\* Program constants and values
\* ------------------------------------------------------------------------

MinCreditScore == 700

DefaultTenure == 60

\* Python's None, and a local that has not been assigned yet
None == [py |-> "None"]
Unset == [py |-> "unset"]

DefaultCustomers ==
    << [name |-> "Rajesh Kumar", phone |-> "+91-9876543210",
        address |-> "123 MG Road, Bangalore, Karnataka - 560001",
        credit_score |-> 750, pre_approved_limit |-> 500000, monthly_salary |-> 80000],
       [name |-> "Priya Sharma", phone |-> "+91-9123456789",
        address |-> "456 Park Street, Kolkata, West Bengal - 700016",
        credit_score |-> 650, pre_approved_limit |-> 200000, monthly_salary |-> 50000],
       [name |-> "Amit Patel", phone |-> "+91-9988776655",
        address |-> "789 Marine Drive, Mumbai, Maharashtra - 400020",
        credit_score |-> 720, pre_approved_limit |-> 300000, monthly_salary |-> 120000] >>

\* customer ids a request may name: every id the table can hold and one more
CustomerIds == 1..(Len(DefaultCustomers) + MaxAdds + 1)

VARIABLES
    customers,   \* table customers: row id -> row (ids are 1..Len, AUTOINCREMENT)
    sims,        \* per request thread of /start_simulation: its locals and position
    letters,     \* the files of LETTERS_DIR: records [filename, content]
    now,         \* datetime.now(), in whole seconds
    uwArgs,      \* arguments of the direct underwriting_agent calls
    uwFirst,     \* what the first direct call saw and returned
    uwLast       \* what the latest direct call saw and returned

vars == <<customers, sims, letters, now, uwArgs, uwFirst, uwLast>>

\* ------------------------------------------------------------------------
\* Customer store
\* ------------------------------------------------------------------------

\* variant: the table is dropped and created again with the default rows
init_db_Recreate(db) == DefaultCustomers

\* init_db() (lines 18-55): the default rows are inserted only into an empty
\* table; a table with rows is left as it is
init_db(db) == IF Len(db) = 0 THEN DefaultCustomers ELSE db

\* variant: the SELECT has no WHERE clause and takes the newest row
get_customer_by_id_Newest(db, customer_id) ==
    IF customer_id \in DOMAIN db
    THEN [id |-> Len(db),
          name |-> db[Len(db)].name,
          kyc_details |-> [phone |-> db[Len(db)].phone,
                           address |-> db[Len(db)].address],
          credit_score |-> db[Len(db)].credit_score,
          pre_approved_limit |-> db[Len(db)].pre_approved_limit,
          monthly_salary |-> db[Len(db)].monthly_salary]
    ELSE None

get_customer_by_id(db, customer_id) ==
    IF customer_id \in DOMAIN db
    THEN [id |-> customer_id,
          name |-> db[customer_id].name,
          kyc_details |-> [phone |-> db[customer_id].phone,
                           address |-> db[customer_id].address],
          credit_score |-> db[customer_id].credit_score,
          pre_approved_limit |-> db[customer_id].pre_approved_limit,
          monthly_salary |-> db[customer_id].monthly_salary]
    ELSE None

\* SELECT ... ORDER BY id: every row, in id order
get_all_customers(db) ==
    [id \in DOMAIN db |->
        [id |-> id,
         name |-> db[id].name,
         phone |-> db[id].phone,
         address |-> db[id].address,
         credit_score |-> db[id].credit_score,
         pre_approved_limit |-> db[id].pre_approved_limit,
         monthly_salary |-> db[id].monthly_salary]]

\* variant: the INSERT replaces the newest row instead of adding one
add_customer_to_db_Replace(db, row) ==
    [db |-> [db EXCEPT ![Len(db)] = row], customer_id |-> Len(db)]

\* the table after the INSERT and the row id it returns
add_customer_to_db(db, row) ==
    [db |-> Append(db, row), customer_id |-> Len(db) + 1]

\* ------------------------------------------------------------------------
\* Agents
\* ------------------------------------------------------------------------

verification_agent(db, customer_id) ==
    LET customer == get_customer_by_id(db, customer_id)
    IN  IF customer = None
        THEN [status |-> "error", message |-> "Customer not found"]
        ELSE [status |-> "success", name |-> customer.name,
              kyc_details |-> customer.kyc_details]

\* x > y and x <= y on amounts: False when the amount is NaN
Gt(x, y) == x # NaN /\ x > y

Le(x, y) == x # NaN /\ x <= y

\* the conditions of the rule chain, in source order
BelowCreditFloor(customer) == customer.credit_score < MinCreditScore

\* variant: the ceiling at three times the limit
ExceedsCeiling_Triple(customer, loan_amount) ==
    Gt(loan_amount, 3 * customer.pre_approved_limit)

ExceedsCeiling(customer, loan_amount) ==
    Gt(loan_amount, 2 * customer.pre_approved_limit)

\* variant: an amount equal to the limit is not within it
WithinLimit_Strict(customer, loan_amount) ==
    Le(loan_amount, customer.pre_approved_limit - 1)

WithinLimit(customer, loan_amount) ==
    Le(loan_amount, customer.pre_approved_limit)

\* variant: twice the limit itself is outside the stretch tier
InStretchTier_StrictUpper(customer, loan_amount) ==
    /\ Gt(loan_amount, customer.pre_approved_limit)
    /\ Le(loan_amount, 2 * customer.pre_approved_limit - 1)

InStretchTier(customer, loan_amount) ==
    /\ Gt(loan_amount, customer.pre_approved_limit)
    /\ Le(loan_amount, 2 * customer.pre_approved_limit)

\* the results of the rule chain; a reason is its f-string's template and the
\* values substituted (number formatting is display only and not modelled)
RejectCredit(customer) ==
    [status |-> "rejected",
     reason |-> [tmpl |-> "Credit score is below the minimum requirement",
                 credit_score |-> customer.credit_score,
                 minimum |-> MinCreditScore]]

\* variant: the ceiling rejection carries a tenure
RejectCeiling_WithTenure(customer, loan_amount) ==
    [status |-> "rejected",
     reason |-> [tmpl |-> "Requested loan amount exceeds 2x the pre-approved limit",
                 loan_amount |-> loan_amount,
                 ceiling |-> 2 * customer.pre_approved_limit],
     tenure_months |-> DefaultTenure]

RejectCeiling(customer, loan_amount) ==
    [status |-> "rejected",
     reason |-> [tmpl |-> "Requested loan amount exceeds 2x the pre-approved limit",
                 loan_amount |-> loan_amount,
                 ceiling |-> 2 * customer.pre_approved_limit]]

ApproveWithinLimit(customer, loan_amount, tenure_months) ==
    [status |-> "approved",
     reason |-> [tmpl |-> "Loan amount is within pre-approved limit",
                 loan_amount |-> loan_amount,
                 pre_approved_limit |-> customer.pre_approved_limit],
     interest_rate |-> Float_10_5,
     tenure_months |-> tenure_months]

\* emi = loan_amount * 1.12 / tenure_months, in binary64
Emi(loan_amount, tenure_months) ==
    FloatDivInt(FloatMulInt(Float_1_12, loan_amount), tenure_months)

\* max_emi = monthly_salary * 0.5
MaxEmi(customer) == FloatHalf(IntToFloat(customer.monthly_salary))

\* variant: the comparison is turned round
EmiAffordable_Reversed(emi, max_emi) == FloatLe(max_emi, emi)

EmiAffordable(emi, max_emi) == FloatLe(emi, max_emi)

StretchTier(customer, loan_amount, tenure_months) ==
    IF tenure_months = 0 THEN [raised |-> "ZeroDivisionError"]
    ELSE LET emi     == Emi(loan_amount, tenure_months)
             max_emi == MaxEmi(customer)
         IN  IF EmiAffordable(emi, max_emi)
             THEN [status |-> "approved",
                   reason |-> [tmpl |-> "Salary verification passed. EMI is within 50% of monthly salary",
                               emi |-> emi,
                               monthly_salary |-> customer.monthly_salary],
                   interest_rate |-> Float_12_0,
                   tenure_months |-> tenure_months,
                   emi |-> emi,
                   salary_verification_required |-> TRUE]
             ELSE [status |-> "rejected",
                   reason |-> [tmpl |-> "EMI exceeds 50% of monthly salary",
                               emi |-> emi,
                               max_emi |-> max_emi]]

\* variant: the ceiling is tested before the credit floor
underwriting_agent_CeilingFirst(db, customer_id, loan_amount, tenure_months) ==
    LET customer == get_customer_by_id(db, customer_id)
    IN  IF customer = None
        THEN [status |-> "error", reason |-> [tmpl |-> "Customer not found"]]
        ELSE IF ExceedsCeiling(customer, loan_amount)
             THEN RejectCeiling(customer, loan_amount)
        ELSE IF BelowCreditFloor(customer) THEN RejectCredit(customer)
        ELSE IF WithinLimit(customer, loan_amount)
             THEN ApproveWithinLimit(customer, loan_amount, tenure_months)
        ELSE IF InStretchTier(customer, loan_amount)
             THEN StretchTier(customer, loan_amount, tenure_months)
        ELSE None

underwriting_agent(db, customer_id, loan_amount, tenure_months) ==
    LET customer == get_customer_by_id(db, customer_id)
    IN  IF customer = None
        THEN [status |-> "error", reason |-> [tmpl |-> "Customer not found"]]
        ELSE IF BelowCreditFloor(customer) THEN RejectCredit(customer)
        ELSE IF ExceedsCeiling(customer, loan_amount)
             THEN RejectCeiling(customer, loan_amount)
        ELSE IF WithinLimit(customer, loan_amount)
             THEN ApproveWithinLimit(customer, loan_amount, tenure_months)
        ELSE IF InStretchTier(customer, loan_amount)
             THEN StretchTier(customer, loan_amount, tenure_months)
        ELSE None

\* the file name is the customer id and the clock's second; io_ok is whether
\* reportlab and the file system get the PDF written (any exception is caught
\* and turned into None)
sanction_letter_generator(db, files, clock, customer_id, loan_amount, interest_rate, tenure_months, approval_status, io_ok) ==
    LET customer == get_customer_by_id(db, customer_id)
        filename == [customer_id |-> customer_id, stamp |-> clock]
        pdf      == [filename |-> filename,
                     content |-> [name |-> customer.name,
                                  loan_amount |-> loan_amount,
                                  interest_rate |-> interest_rate,
                                  tenure_months |-> tenure_months,
                                  approval_status |-> approval_status]]
    IN  IF customer = None \/ ~io_ok
        THEN [filename |-> None, files |-> files]
        ELSE [filename |-> filename,
              files |-> {f \in files : f.filename # filename} \cup {pdf}]

\* ------------------------------------------------------------------------
\* /start_simulation: one request is the steps SimVerify, SimUnderwrite,
\* SimNarrate, SimGenerate; each reads the store once, so requests served by
\* other threads interleave between them.  A transcript entry is its text's
\* fixed part (tag) and the values substituted.
\* ------------------------------------------------------------------------

Divider == [tag |-> "---"]

IdleSim ==
    [pc |-> "idle", customer_id |-> 0, loan_amount |-> 0, log |-> <<>>,
     verification_result |-> Unset, underwriting_result |-> Unset,
     generator_call |-> Unset, filename |-> Unset]

\* variant: the failed verification is narrated but the request goes on
AfterVerification_NoReturn(started, verification_result) ==
    IF verification_result.status = "error"
    THEN [started EXCEPT
            !.pc = "underwriting",
            !.verification_result = verification_result,
            !.log = @ \o << [tag |-> "Verification Agent: error",
                             message |-> verification_result.message] >>]
    ELSE [started EXCEPT
            !.pc = "underwriting",
            !.verification_result = verification_result,
            !.log = @ \o
                << [tag |-> "Verification Agent: KYC verification successful"],
                   Divider,
                   [tag |-> "Master Agent: Forwarding to Underwriting Agent"] >>]

\* lines 734-744: a failed verification ends the request with the transcript so
\* far; a successful one is narrated and the request goes on to underwriting
AfterVerification(started, verification_result) ==
    IF verification_result.status = "error"
    THEN [started EXCEPT
            !.pc = "done",
            !.verification_result = verification_result,
            !.log = @ \o << [tag |-> "Verification Agent: error",
                             message |-> verification_result.message] >>]
    ELSE [started EXCEPT
            !.pc = "underwriting",
            !.verification_result = verification_result,
            !.log = @ \o
                << [tag |-> "Verification Agent: KYC verification successful"],
                   [tag |-> "Verification Agent: Customer Name",
                    name |-> verification_result.name],
                   [tag |-> "Verification Agent: Phone",
                    phone |-> verification_result.kyc_details.phone],
                   [tag |-> "Verification Agent: Address",
                    address |-> verification_result.kyc_details.address],
                   Divider,
                   [tag |-> "Master Agent: Forwarding to Underwriting Agent"] >>]

\* lines 721-731: the request parsed and the transcript opened
Started(customer_id, loan_amount) ==
    [IdleSim EXCEPT
        !.customer_id = customer_id,
        !.loan_amount = loan_amount,
        !.log = << [tag |-> "Master Agent: Hello! Welcome"],
                   [tag |-> "Master Agent: Processing loan application for Customer ID",
                    customer_id |-> customer_id],
                   [tag |-> "Master Agent: Requested Loan Amount",
                    loan_amount |-> loan_amount],
                   Divider,
                   [tag |-> "Master Agent: Initiating KYC verification"] >>]

\* line 745: the eligibility check, with the default tenure; an exception
\* raised in it fails the request
Underwritten(s, db) ==
    LET underwriting_result ==
            underwriting_agent(db, s.customer_id, s.loan_amount, DefaultTenure)
    IN  IF "raised" \in DOMAIN underwriting_result
        THEN [s EXCEPT !.pc = "failed"]
        ELSE [s EXCEPT !.pc = "narrating",
                       !.underwriting_result = underwriting_result]

\* lines 747-764: read the profile again and narrate the decision; subscripting
\* None (a missing profile, a missing result) raises and the request fails
\* with no transcript
Narrated(s, db) ==
    LET underwriting_result == s.underwriting_result
        customer == get_customer_by_id(db, s.customer_id)
    IN  IF customer = None \/ underwriting_result = None
        THEN [s EXCEPT !.pc = "failed"]
        ELSE LET log1 ==
                     s.log \o
                     << [tag |-> "Underwriting Agent: Credit Score",
                         credit_score |-> customer.credit_score],
                        [tag |-> "Underwriting Agent: Pre-approved Limit",
                         pre_approved_limit |-> customer.pre_approved_limit] >> \o
                     (IF "salary_verification_required" \in DOMAIN underwriting_result
                         /\ underwriting_result.salary_verification_required
                      THEN << [tag |-> "Underwriting Agent: Salary verification required",
                               monthly_salary |-> customer.monthly_salary] >>
                      ELSE <<>>) \o
                     << [tag |-> "Underwriting Agent: reason",
                         reason |-> underwriting_result.reason],
                        Divider >>
             IN  IF underwriting_result.status = "rejected"
                 THEN [s EXCEPT
                         !.pc = "done",
                         !.log = log1 \o
                             << [tag |-> "Master Agent: Loan application has been REJECTED"],
                                [tag |-> "Master Agent: Reason",
                                 reason |-> underwriting_result.reason],
                                [tag |-> "Master Agent: Thank you"] >>]
                 ELSE IF underwriting_result.status = "approved"
                 THEN [s EXCEPT
                         !.pc = "generating",
                         !.log = log1 \o
                             << [tag |-> "Master Agent: Loan application has been APPROVED"],
                                [tag |-> "Master Agent: Generating sanction letter"] >>]
                 ELSE [s EXCEPT !.pc = "done", !.log = log1]

\* lines 721-744: parse the request, open the transcript, verify
SimVerify(p, customer_id, loan_amount) ==
    /\ sims[p].pc = "idle"
    /\ sims' = [sims EXCEPT ![p] =
           AfterVerification(Started(customer_id, loan_amount),
                             verification_agent(customers, customer_id))]
    /\ UNCHANGED <<customers, letters, now, uwArgs, uwFirst, uwLast>>

\* the three later steps of a request, each on the store as it is by then
SimUnderwrite(p) ==
    /\ sims[p].pc = "underwriting"
    /\ sims' = [sims EXCEPT ![p] = Underwritten(sims[p], customers)]
    /\ UNCHANGED <<customers, letters, now, uwArgs, uwFirst, uwLast>>

SimNarrate(p) ==
    /\ sims[p].pc = "narrating"
    /\ sims' = [sims EXCEPT ![p] = Narrated(sims[p], customers)]
    /\ UNCHANGED <<customers, letters, now, uwArgs, uwFirst, uwLast>>

\* variant: the letter is always requested at the within-limit rate
GeneratorCall_FixedRate(s) ==
    [customer_id |-> s.customer_id,
     loan_amount |-> s.loan_amount,
     interest_rate |-> Float_10_5,
     tenure_months |-> s.underwriting_result.tenure_months,
     approval_status |-> "approved"]

\* lines 766-772: the arguments sanction_letter_generator is called with
GeneratorCall(s) ==
    [customer_id |-> s.customer_id,
     loan_amount |-> s.loan_amount,
     interest_rate |-> s.underwriting_result.interest_rate,
     tenure_months |-> s.underwriting_result.tenure_months,
     approval_status |-> "approved"]

\* variant: the returned file name is not tested
GenerationReport_NoCheck(filename) ==
    << [tag |-> "Sanction Letter Agent: PDF generated successfully"],
       [tag |-> "Sanction Letter Agent: Download Your Sanction Letter",
        filename |-> filename],
       Divider,
       [tag |-> "Master Agent: Congratulations"] >>

\* lines 774-780: what the transcript says about the generated letter
GenerationReport(filename) ==
    IF filename # None
    THEN << [tag |-> "Sanction Letter Agent: PDF generated successfully"],
            [tag |-> "Sanction Letter Agent: Download Your Sanction Letter",
             filename |-> filename],
            Divider,
            [tag |-> "Master Agent: Congratulations"] >>
    ELSE << [tag |-> "Sanction Letter Agent: Error generating PDF"] >>

\* lines 766-782: request the sanction letter and report what came back
Generated(s, db, files, clock, io_ok) ==
    LET call == GeneratorCall(s)
        out  == sanction_letter_generator(db, files, clock,
                    call.customer_id, call.loan_amount, call.interest_rate,
                    call.tenure_months, call.approval_status, io_ok)
    IN  [sim |-> [s EXCEPT
                     !.pc = "done",
                     !.generator_call = call,
                     !.filename = out.filename,
                     !.log = @ \o GenerationReport(out.filename)],
         files |-> out.files]

SimGenerate(p, io_ok) ==
    /\ sims[p].pc = "generating"
    /\ LET out == Generated(sims[p], customers, letters, now, io_ok)
       IN  /\ letters' = out.files
           /\ sims' = [sims EXCEPT ![p] = out.sim]
    /\ UNCHANGED <<customers, now, uwArgs, uwFirst, uwLast>>

\* the step a request at position s.pc takes next, on the store db
SimStep(s, db, files, clock, io_ok) ==
    CASE s.pc = "underwriting" -> Underwritten(s, db)
      [] s.pc = "narrating"    -> Narrated(s, db)
      [] s.pc = "generating"   -> Generated(s, db, files, clock, io_ok).sim
      [] OTHER                 -> s

\* start_simulation (lines 719-782) run with no other request in between: the
\* request after its first `steps` steps, all of them on the one store db
start_simulation(db, clock, customer_id, loan_amount, io_ok, steps) ==
    LET s1 == AfterVerification(Started(customer_id, loan_amount),
                                verification_agent(db, customer_id))
        s2 == SimStep(s1, db, {}, clock, io_ok)
        s3 == SimStep(s2, db, {}, clock, io_ok)
        s4 == SimStep(s3, db, {}, clock, io_ok)
    IN  CASE steps = 1 -> s1
          [] steps = 2 -> s2
          [] steps = 3 -> s3
          [] OTHER     -> s4

\* /add_customer (lines 807-824): the posted fields are inserted as they are
AddCustomer(row) ==
    /\ Len(customers) < Len(DefaultCustomers) + MaxAdds
    /\ customers' = add_customer_to_db(customers, row).db
    /\ UNCHANGED <<sims, letters, now, uwArgs, uwFirst, uwLast>>

\* init_db() run again on the existing database (the module is loaded again,
\* lines 127-128)
InitDb ==
    /\ customers' = init_db(customers)
    /\ UNCHANGED <<sims, letters, now, uwArgs, uwFirst, uwLast>>

\* /get_customers (lines 801-805): the list is returned, nothing is written
GetCustomers ==
    /\ Len(get_all_customers(customers)) = Len(customers)
    /\ UNCHANGED vars

\* a second passes
Tick ==
    /\ now < MaxClock
    /\ now' = now + 1
    /\ UNCHANGED <<customers, sims, letters, uwArgs, uwFirst, uwLast>>

\* a direct call underwriting_agent(customer_id, loan_amount, tenure_months)
CallUnderwriting ==
    /\ LET seen == [rows |-> Len(customers),
                    customer |-> get_customer_by_id(customers, uwArgs.customer_id),
                    result |-> underwriting_agent(customers, uwArgs.customer_id,
                                   uwArgs.loan_amount, uwArgs.tenure_months)]
       IN  /\ uwLast' = seen
           /\ uwFirst' = IF uwFirst = Unset THEN seen ELSE uwFirst
    /\ UNCHANGED <<customers, sims, letters, now, uwArgs>>

\* ------------------------------------------------------------------------
\* Specifications
\* ------------------------------------------------------------------------

NoArgs == [customer_id |-> 0, loan_amount |-> 0, tenure_months |-> 0]

\* the state after init_db() on an empty database; no request is in progress
InitStore ==
    /\ customers = init_db(<< >>)
    /\ sims = [p \in Sims |-> IdleSim]
    /\ letters = {}
    /\ now = 0
    /\ uwFirst = Unset
    /\ uwLast = Unset

Init == InitStore /\ uwArgs = NoArgs

\* the web service: simulations in threads, inserts, the clock
Next ==
    \/ \E p \in Sims, customer_id \in CustomerIds, loan_amount \in SimAmounts :
           SimVerify(p, customer_id, loan_amount)
    \/ \E p \in Sims : SimUnderwrite(p)
    \/ \E p \in Sims : SimNarrate(p)
    \/ \E p \in Sims, io_ok \in BOOLEAN : SimGenerate(p, io_ok)
    \/ \E row \in NewProfiles : AddCustomer(row)
    \/ InitDb
    \/ GetCustomers
    \/ Tick

Spec == Init /\ [][Next]_vars

\* underwriting_agent called directly, any number of times with the same
\* arguments, while customers are inserted
InitUW ==
    /\ InitStore
    /\ uwArgs \in [customer_id : CustomerIds, loan_amount : Amounts,
                   tenure_months : Tenures]

NextUW ==
    \/ CallUnderwriting
    \/ \E row \in NewProfiles : AddCustomer(row)

SpecUW == InitUW /\ [][NextUW]_vars

\* ------------------------------------------------------------------------
\* Properties of underwriting_agent, checked under SpecUW on what each direct
\* call saw (the profile looked up) and returned
\* ------------------------------------------------------------------------

\* the latest direct call found a profile
CalledOnProfile == uwLast # Unset /\ uwLast.customer # None

\* r is a Decision: a result with status approved or rejected
IsDecision(r) == "status" \in DOMAIN r /\ r.status \in {"approved", "rejected"}

Has(r, field) == field \in DOMAIN r

\* C1: a profile with credit score below 700 is rejected for every amount and
\* tenure, with the reason citing the score and the threshold 700, also when
\* the amount exceeds twice the pre-approved limit.
C1_CreditFloorWins ==
    (CalledOnProfile /\ uwLast.customer.credit_score < 700) =>
        /\ IsDecision(uwLast.result)
        /\ uwLast.result.status = "rejected"
        /\ uwLast.result.reason.tmpl = "Credit score is below the minimum requirement"
        /\ uwLast.result.reason.credit_score = uwLast.customer.credit_score
        /\ uwLast.result.reason.minimum = 700

\* a call for a sub-700 profile with an amount above twice its limit returned
C1_Witness ==
    /\ CalledOnProfile
    /\ uwLast.customer.credit_score < 700
    /\ uwArgs.loan_amount > 2 * uwLast.customer.pre_approved_limit
    /\ uwLast.result.status = "rejected"

\* C2: an amount above twice the pre-approved limit is rejected whatever the
\* credit score, salary and tenure; it is never approved.
C2_CeilingRejects ==
    (CalledOnProfile
        /\ uwArgs.loan_amount > 2 * uwLast.customer.pre_approved_limit) =>
        /\ IsDecision(uwLast.result)
        /\ uwLast.result.status = "rejected"

\* a call for a profile at or above the credit floor with an amount one above
\* twice the limit returned a rejection
C2_Witness ==
    /\ CalledOnProfile
    /\ uwLast.customer.credit_score >= 700
    /\ uwArgs.loan_amount = 2 * uwLast.customer.pre_approved_limit + 1
    /\ uwLast.result.status = "rejected"

\* C3: with credit score >= 700 and an amount up to and including the
\* pre-approved limit the decision is approved at rate 10.5 for the requested
\* tenure, without salary verification and without an emi, whatever the salary.
C3_WithinLimitApproved ==
    (CalledOnProfile
        /\ uwLast.customer.credit_score >= 700
        /\ uwArgs.loan_amount <= uwLast.customer.pre_approved_limit) =>
        /\ IsDecision(uwLast.result)
        /\ uwLast.result.status = "approved"
        /\ uwLast.result.interest_rate = Float_10_5
        /\ uwLast.result.tenure_months = uwArgs.tenure_months
        /\ ~Has(uwLast.result, "salary_verification_required")
        /\ ~Has(uwLast.result, "emi")

\* a call with the amount equal to the limit returned an approval, for a
\* profile whose salary is far below any instalment of that amount
C3_Witness ==
    /\ CalledOnProfile
    /\ uwLast.customer.credit_score >= 700
    /\ uwArgs.loan_amount = uwLast.customer.pre_approved_limit
    /\ uwArgs.loan_amount > uwLast.customer.monthly_salary * uwArgs.tenure_months
    /\ uwArgs.tenure_months > 0
    /\ uwLast.result.status = "approved"

\* the latest direct call was a stretch-tier request: credit score at or
\* above the floor, limit < amount <= 2 x limit, a positive tenure
StretchRequest ==
    /\ CalledOnProfile
    /\ uwLast.customer.credit_score >= 700
    /\ uwLast.customer.pre_approved_limit < uwArgs.loan_amount
    /\ uwArgs.loan_amount <= 2 * uwLast.customer.pre_approved_limit
    /\ uwArgs.tenure_months > 0

\* C4: in the stretch tier the decision is approved exactly when the EMI
\* amount x 1.12 / tenure is at most half the salary, that is when
\* 224 x amount <= 100 x salary x tenure, and rejected otherwise (the
\* approve/reject split of the claim, in exact arithmetic).
C4_StretchSplitExact ==
    StretchRequest =>
        /\ IsDecision(uwLast.result)
        /\ uwLast.result.status = "approved" <=>
               224 * uwArgs.loan_amount
                   <= 100 * uwLast.customer.monthly_salary * uwArgs.tenure_months

\* C5: a rejected Decision carries no interest rate, tenure or emi; an
\* approved one carries interest rate and tenure; emi is present, and the
\* salary-verification flag is true, exactly for a stretch-tier approval,
\* which is the approval at rate 12.0.
C5_FieldsFollowStatus ==
    (uwLast # Unset /\ IsDecision(uwLast.result)) =>
        LET r == uwLast.result
            stretch == /\ r.status = "approved"
                       /\ uwLast.customer.pre_approved_limit < uwArgs.loan_amount
        IN  /\ r.status = "rejected" =>
                   /\ ~Has(r, "interest_rate")
                   /\ ~Has(r, "tenure_months")
                   /\ ~Has(r, "emi")
            /\ r.status = "approved" =>
                   /\ Has(r, "interest_rate")
                   /\ Has(r, "tenure_months")
            /\ Has(r, "emi") <=> stretch
            /\ (Has(r, "salary_verification_required")
                    /\ r.salary_verification_required) <=> stretch
            /\ (Has(r, "interest_rate") /\ r.interest_rate = Float_12_0) <=> stretch

\* a stretch-tier approval carrying its emi was returned
C5_Witness ==
    /\ StretchRequest
    /\ uwLast.result.status = "approved"
    /\ Has(uwLast.result, "emi")
    /\ uwLast.result.salary_verification_required

\* the latest direct call was inside the documented domain: an existing
\* profile with credit score in 300..900, positive limit and salary, a positive
\* amount and a positive tenure
InDomainCall ==
    /\ CalledOnProfile
    /\ uwLast.customer.credit_score \in 300..900
    /\ uwLast.customer.pre_approved_limit > 0
    /\ uwLast.customer.monthly_salary > 0
    /\ uwArgs.loan_amount > 0
    /\ uwArgs.tenure_months > 0

\* C6: on the documented domain underwriting_agent returns a Decision
\* (approved or rejected), never falls through and never raises, and the
\* result is the one of exactly one rule: the first of credit floor, ceiling,
\* within-limit, stretch tier whose condition holds.
C6_TotalOnDomain ==
    InDomainCall =>
        LET r  == uwLast.result
            c  == uwLast.customer
            a  == uwArgs.loan_amount
            r1 == c.credit_score < 700
            r2 == ~r1 /\ a > 2 * c.pre_approved_limit
            r3 == ~r1 /\ ~r2 /\ a <= c.pre_approved_limit
            r4 == ~r1 /\ ~r2 /\ ~r3
        IN  /\ IsDecision(r)
            /\ r1 <=> r.reason.tmpl = "Credit score is below the minimum requirement"
            /\ r2 <=> r.reason.tmpl = "Requested loan amount exceeds 2x the pre-approved limit"
            /\ r3 <=> r.reason.tmpl = "Loan amount is within pre-approved limit"
            /\ r4 <=> r.reason.tmpl \in
                   {"Salary verification passed. EMI is within 50% of monthly salary",
                    "EMI exceeds 50% of monthly salary"}

\* an in-domain call with the amount exactly twice the limit returned a
\* stretch-tier Decision
C6_Witness ==
    /\ InDomainCall
    /\ uwLast.customer.credit_score >= 700
    /\ uwArgs.loan_amount = 2 * uwLast.customer.pre_approved_limit
    /\ IsDecision(uwLast.result)
    /\ Has(uwLast.result.reason, "emi")

\* C7 as stated: the first and the latest call with the same customer id,
\* amount and tenure returned identical results, whatever was inserted between
\* them.
C7_Idempotent ==
    (uwFirst # Unset /\ uwLast # Unset) => uwFirst.result = uwLast.result

\* C7, amended: when the profile exists at the first call, the first and the
\* latest call with the same customer id, amount and tenure return identical
\* Decisions, whatever is inserted between them.
C7_IdempotentExisting ==
    (uwFirst # Unset /\ uwLast # Unset /\ uwFirst.customer # None) =>
        uwFirst.result = uwLast.result

\* two calls on an existing profile with an insert between them returned the
\* same Decision
C7_Witness ==
    /\ uwFirst # Unset
    /\ uwLast # Unset
    /\ uwFirst.customer # None
    /\ uwFirst.rows < uwLast.rows
    /\ IsDecision(uwLast.result)
    /\ uwFirst.result = uwLast.result

\* ------------------------------------------------------------------------
\* Properties of /start_simulation, checked under Spec on every request thread
\* ------------------------------------------------------------------------

\* the transcript of request p has an entry with this text
Says(p, tag) == \E i \in DOMAIN sims[p].log : sims[p].log[i].tag = tag

LastEntry(p) == sims[p].log[Len(sims[p].log)]

Approved == "Master Agent: Loan application has been APPROVED"
Rejected == "Master Agent: Loan application has been REJECTED"

\* C8: a request naming a customer id without a profile fails verification
\* with 'Customer not found' and stops there: underwriting_agent and
\* sanction_letter_generator are never called, and the transcript returned ends
\* with the not-found entry and has no approval, rejection or underwriting
\* entry.
C8_NotFoundStops ==
    \A p \in Sims :
        (sims[p].pc # "idle"
            /\ (sims[p].customer_id \notin DOMAIN customers
                \/ sims[p].verification_result.status = "error")) =>
            /\ sims[p].verification_result.status = "error"
            /\ sims[p].pc = "done"
            /\ sims[p].underwriting_result = Unset
            /\ sims[p].generator_call = Unset
            /\ sims[p].filename = Unset
            /\ LastEntry(p).tag = "Verification Agent: error"
            /\ LastEntry(p).message = "Customer not found"
            /\ ~Says(p, Approved)
            /\ ~Says(p, Rejected)
            /\ ~Says(p, "Master Agent: Reason")
            /\ ~Says(p, "Underwriting Agent: reason")
            /\ ~Says(p, "Master Agent: Forwarding to Underwriting Agent")

\* a request for an id that has no profile has returned
C8_Witness ==
    \E p \in Sims :
        /\ sims[p].pc = "done"
        /\ sims[p].customer_id \notin DOMAIN customers
        /\ LastEntry(p).tag = "Verification Agent: error"

\* C9: sanction_letter_generator is called if and only if the Decision is
\* approved, only after a successful verification and the eligibility check,
\* with the request's customer id and amount and the Decision's own interest
\* rate and tenure; the Decision held by the request is the one
\* underwriting_agent gives for the request, unaltered.
C9_LetterIffApproved ==
    \A p \in Sims :
        LET s == sims[p] IN
        /\ s.generator_call # Unset =>
               /\ s.verification_result.status = "success"
               /\ s.underwriting_result # Unset
               /\ IsDecision(s.underwriting_result)
               /\ s.underwriting_result.status = "approved"
               /\ s.generator_call.customer_id = s.customer_id
               /\ s.generator_call.loan_amount = s.loan_amount
               /\ s.generator_call.interest_rate = s.underwriting_result.interest_rate
               /\ s.generator_call.tenure_months = s.underwriting_result.tenure_months
        /\ (s.pc = "done" /\ s.underwriting_result # Unset) =>
               (s.generator_call # Unset <=> s.underwriting_result.status = "approved")
        /\ s.pc = "generating" => s.underwriting_result.status = "approved"
        /\ s.underwriting_result # Unset =>
               s.underwriting_result =
                   underwriting_agent(customers, s.customer_id, s.loan_amount,
                                      DefaultTenure)

\* a request with a stretch-tier approval (rate 12.0) has called the generator
C9_Witness ==
    \E p \in Sims :
        /\ sims[p].pc = "done"
        /\ sims[p].generator_call # Unset
        /\ sims[p].generator_call.interest_rate = Float_12_0
        /\ sims[p].generator_call.loan_amount > 0

\* C10: when sanction_letter_generator returns None after an approved
\* Decision, the request still returns its transcript: it ends with the
\* generation-error entry, keeps the APPROVED entry, has no REJECTED entry and
\* no success or download entry, and the Decision stays approved.
C10_FailedLetterKeepsApproval ==
    \A p \in Sims :
        (sims[p].generator_call # Unset /\ sims[p].filename = None) =>
            /\ sims[p].pc = "done"
            /\ sims[p].underwriting_result.status = "approved"
            /\ LastEntry(p).tag = "Sanction Letter Agent: Error generating PDF"
            /\ Says(p, Approved)
            /\ ~Says(p, Rejected)
            /\ ~Says(p, "Sanction Letter Agent: PDF generated successfully")
            /\ ~Says(p, "Sanction Letter Agent: Download Your Sanction Letter")
            /\ ~Says(p, "Verification Agent: error")

\* a request whose letter could not be generated has returned
C10_Witness ==
    \E p \in Sims :
        /\ sims[p].pc = "done"
        /\ sims[p].generator_call # Unset
        /\ sims[p].filename = None
        /\ Says(p, Approved)

\* C11: a request whose amount is not positive (zero, negative, or missing
\* and read as 0) is rejected before evaluation: the eligibility check is
\* never run for it, and it never gets an approved Decision or a sanction
\* letter.
C11_NonPositiveRejected ==
    \A p \in Sims :
        (sims[p].pc # "idle" /\ ~Gt(sims[p].loan_amount, 0)) =>
            /\ sims[p].pc \notin {"narrating", "generating"}
            /\ sims[p].underwriting_result = Unset
            /\ sims[p].generator_call = Unset
            /\ ~Says(p, Approved)
            /\ \A f \in letters : Gt(f.content.loan_amount, 0)

\* C12: every profile in the store has a credit score in 300..900, a positive
\* pre-approved limit and a positive monthly salary; an add_customer request
\* outside that domain is rejected and leaves the store unchanged.
C12_ProfilesInDomain ==
    \A id \in DOMAIN customers :
        /\ customers[id].credit_score \in 300..900
        /\ customers[id].pre_approved_limit > 0
        /\ customers[id].monthly_salary > 0

\* every profile of the store is in the next store too, with every field as
\* it was
ProfilesKept ==
    \A id \in DOMAIN customers :
        /\ id \in DOMAIN customers'
        /\ customers'[id] = customers[id]
        /\ get_customer_by_id(customers', id) = get_customer_by_id(customers, id)

\* C13: profiles are append-only: an insert returns an id that no profile of
\* the store has, and no step of any operation (insert, lookup, list-all,
\* verification, eligibility check, simulation, letter generation, init_db run
\* again) changes a field of, or removes, a profile that exists.
C13_AppendOnly ==
    /\ [](\A row \in NewProfiles :
            LET ins == add_customer_to_db(customers, row)
            IN  /\ ins.customer_id \notin DOMAIN customers
                /\ ins.db[ins.customer_id] = row
                /\ \A id \in DOMAIN customers : ins.db[id] = customers[id])
    /\ [][ProfilesKept]_vars

\* with an inserted profile in the store, a request for it has had its letter
\* generated and another request has been rejected
C13_Witness ==
    /\ Len(customers) > Len(DefaultCustomers)
    /\ \E p \in Sims :
        /\ sims[p].pc = "done"
        /\ sims[p].customer_id = Len(customers)
        /\ sims[p].filename \notin {Unset, None}
    /\ \E p \in Sims :
        /\ sims[p].pc = "done"
        /\ Says(p, Rejected)

\* the store as it was when it held n rows (rows are only appended)
StoreAt(n) == SubSeq(customers, 1, n)

\* the second and the outcome of the letter generation of request p, where it
\* has got that far
ClockOf(p) ==
    IF sims[p].filename \notin {Unset, None} THEN sims[p].filename.stamp ELSE 0

IoOf(p) == sims[p].filename # None

\* C14: requests do not interfere: in every interleaving of start_simulation
\* requests and add_customer inserts, the profile reads made by one request
\* (verification, eligibility check, narration, letter generation) see the
\* same values, and the request's Decision and transcript are, at every step,
\* those of the same request run alone on the store it started with.
C14_NoInterference ==
    \A p \in Sims :
        LET s == sims[p] IN
        s.pc # "idle" =>
            /\ \E n \in Len(DefaultCustomers)..Len(customers), steps \in 1..4 :
                   s = start_simulation(StoreAt(n), ClockOf(p), s.customer_id,
                                        s.loan_amount, IoOf(p), steps)
            /\ s.filename \notin {Unset, None} =>
                   \E f \in letters :
                       /\ f.filename = s.filename
                       /\ f.content.name = s.verification_result.name

\* two requests for the inserted customer have returned: one began before the
\* insert and found no profile, the other began after it and has its letter
C14_Witness ==
    \E p, q \in Sims :
        /\ p # q
        /\ sims[p].pc = "done"
        /\ sims[q].pc = "done"
        /\ sims[p].customer_id = Len(customers)
        /\ Len(customers) > Len(DefaultCustomers)
        /\ sims[p].filename \notin {Unset, None}
        /\ sims[q].customer_id = Len(customers)
        /\ sims[q].verification_result.status = "error"

\* the terminal outcomes a transcript can report
ReportsNotFound(p) ==
    /\ LastEntry(p).tag = "Verification Agent: error"
    /\ LastEntry(p).message = "Customer not found"

ReportsRejected(p) ==
    /\ Says(p, Rejected)
    /\ \E i \in DOMAIN sims[p].log :
           /\ sims[p].log[i].tag = "Master Agent: Reason"
           /\ sims[p].log[i].reason = sims[p].underwriting_result.reason
    /\ sims[p].underwriting_result.status = "rejected"

ReportsLetter(p) ==
    /\ Says(p, Approved)
    /\ \E i \in DOMAIN sims[p].log :
           /\ sims[p].log[i].tag = "Sanction Letter Agent: Download Your Sanction Letter"
           /\ sims[p].log[i].filename = sims[p].filename
    /\ ~Says(p, "Sanction Letter Agent: Error generating PDF")
    /\ sims[p].underwriting_result.status = "approved"

ReportsLetterError(p) ==
    /\ Says(p, Approved)
    /\ Says(p, "Sanction Letter Agent: Error generating PDF")
    /\ ~Says(p, "Sanction Letter Agent: Download Your Sanction Letter")
    /\ sims[p].underwriting_result.status = "approved"

OutcomesReported(p) ==
    Cardinality({ k \in 1..4 :
        \/ k = 1 /\ ReportsNotFound(p)
        \/ k = 2 /\ sims[p].underwriting_result # Unset /\ ReportsRejected(p)
        \/ k = 3 /\ sims[p].underwriting_result # Unset /\ ReportsLetter(p)
        \/ k = 4 /\ sims[p].underwriting_result # Unset /\ ReportsLetterError(p) })

\* a request that has returned its transcript reports one outcome, and no
\* transcript says both APPROVED and REJECTED
TranscriptsReportOneOutcome ==
    \A p \in Sims :
        /\ sims[p].pc = "done" => OutcomesReported(p) = 1
        /\ ~(Says(p, Approved) /\ Says(p, Rejected))

\* C15: every start_simulation run ends with a transcript (no run ends in an
\* exception, and a run that has not ended can take its next step), the
\* transcript reports exactly one terminal outcome among customer not found,
\* REJECTED with the Decision's reason, APPROVED with the letter's reference
\* and APPROVED with a generation error, never both APPROVED and REJECTED, and
\* the outcome and reason are the Decision's.
C15_OneOutcome ==
    /\ \A p \in Sims :
           /\ sims[p].pc # "failed"
           /\ sims[p].pc \in {"underwriting", "narrating", "generating"} =>
                  \A io_ok \in BOOLEAN :
                      SimStep(sims[p], customers, letters, now, io_ok).pc
                          \in {"narrating", "generating", "done"} \ {sims[p].pc}
    /\ TranscriptsReportOneOutcome

\* ------------------------------------------------------------------------
\* Monotonicity of underwriting_agent in the amount, checked under SpecUW
\* ------------------------------------------------------------------------

\* the positive amounts not above the amount of the direct calls
SmallerAmounts == { a \in Amounts : 0 < a /\ a <= uwArgs.loan_amount }

\* the direct call was made with a positive amount and a positive tenure on
\* a profile, and approved
ApprovedCall ==
    /\ CalledOnProfile
    /\ uwArgs.loan_amount > 0
    /\ uwArgs.tenure_months > 0
    /\ IsDecision(uwLast.result)
    /\ uwLast.result.status = "approved"

\* C16: approval is monotone in the amount: for a fixed profile and positive
\* tenure, when a positive amount is approved every smaller positive amount
\* is approved too, at an interest rate that is not higher.
C16_ApprovalMonotone ==
    ApprovedCall =>
        \A a \in SmallerAmounts :
            LET smaller == underwriting_agent(customers, uwArgs.customer_id, a,
                                              uwArgs.tenure_months)
            IN  /\ IsDecision(smaller)
                /\ smaller.status = "approved"
                /\ Has(smaller, "interest_rate")
                /\ FloatLe(smaller.interest_rate, uwLast.result.interest_rate)

\* a stretch-tier approval at 12.0 above a smaller stretch-tier amount and an
\* amount within the limit
C16_Witness ==
    /\ ApprovedCall
    /\ uwLast.result.interest_rate = Float_12_0
    /\ \E a, b \in SmallerAmounts :
           /\ a < b
           /\ b < uwArgs.loan_amount
           /\ WithinLimit(uwLast.customer, a)
           /\ InStretchTier(uwLast.customer, b)

\* ------------------------------------------------------------------------
\* The letters of different requests, checked under Spec
\* ------------------------------------------------------------------------

\* request p was approved and its letter was generated
HasLetter(p) == sims[p].filename \notin {Unset, None}

\* C17: approved requests whose letter was generated have different file
\* names, and the letter of each is still in the directory as it was written
\* for it, also when two requests for the same customer run at once or within
\* the same second.
C17_DistinctLetters ==
    \A p \in Sims :
        HasLetter(p) =>
            /\ \A q \in Sims \ {p} :
                   HasLetter(q) => sims[q].filename # sims[p].filename
            /\ \E f \in letters :
                   /\ f.filename = sims[p].filename
                   /\ f.content.loan_amount = sims[p].generator_call.loan_amount
                   /\ f.content.interest_rate = sims[p].generator_call.interest_rate
                   /\ f.content.tenure_months = sims[p].generator_call.tenure_months

====
